---------------------------- MODULE Spec2Model ----------------------------
(***************************************************************************)
(* A model of the redis cache facade of src/redis.go: the Cache type with  *)
(* its operations Set, Get and Stats, the helper getConn, the redigo pool  *)
(* and the key-value store they talk to, and the callers that invoke them. *)
(***************************************************************************)
EXTENDS Integers, Sequences, FiniteSets, TLC

(***************************************************************************)
(* Bounds of the model.                                                    *)
(***************************************************************************)
\* Number of concurrent callers (goroutines) of the one shared Cache.
NumProcs == 2
\* Pool.MaxActive: the connections the pool hands out before its Get() fails.
MaxActive == 2
\* Largest element of an object (objects are short sequences of 1..MaxElem).
MaxElem == 2
\* The whole-second parts of the expirations tried run up to 2^MaxSecBits.
MaxSecBits == 25

Procs == 1..NumProcs
\* The pool of the scripted callers has a connection for each of their calls.
PerCaller == 2
Conns == 1..(MaxActive + PerCaller * NumProcs)
KeyNames == <<"k1", "k2", "k3", "k4">>
\* The key caller p uses when every caller has a key of its own.
KeyOf(p) == KeyNames[p]
Keys == {KeyOf(p) : p \in Procs}

\* The nil redis.Conn (the zero value of the interface).
Nil == 0

(***************************************************************************)
(* The injected encoding strategy (Cache.Marshal, Cache.Unmarshal).  The   *)
(* code fixes only the two signatures; the strategy modelled here shifts   *)
(* every element by one, refuses the element Unsupported, and cannot       *)
(* decode the byte 0.  The empty object encodes to a zero-length payload.  *)
(***************************************************************************)
Unsupported == 9
Objects == {<<>>, <<MaxElem, 1>>}
BadObject == <<Unsupported>>

Marshal(o) ==
    IF \E i \in 1..Len(o) : o[i] = Unsupported
    THEN [err |-> TRUE, b |-> <<>>]
    ELSE [err |-> FALSE, b |-> [i \in 1..Len(o) |-> o[i] + 1]]

Unmarshal(b, object) ==
    IF \E i \in 1..Len(b) : b[i] = 0
    THEN [err |-> TRUE, object |-> object]
    ELSE [err |-> FALSE, object |-> [i \in 1..Len(b) |-> b[i] - 1]]

(***************************************************************************)
(* time.Duration.  A duration d nanoseconds is held as the pair            *)
(* sec = d / Second, nsec = d % Second that Duration.Seconds() itself      *)
(* splits it into (Go's division truncates toward zero, so both parts      *)
(* carry the sign of d).                                                   *)
(***************************************************************************)
NanosPerSecond == 1000000000

Dur(s, n) == [sec |-> s, nsec |-> n]
Second == Dur(1, 0)
MinuteOfNoLength == Dur(0, 0)
Minute == Dur(60, 0)

\* n * d for a whole number of seconds d (2 * time.Minute).
TimesDur(n, d) == Dur(n * d.sec, 0)

\* d < e, for e a whole number of seconds.
DurLess(d, e) == d.sec < e.sec

RECURSIVE Log2(_)
\* floor(log2(n)) for n >= 1: the binary exponent of float64(n).
Log2(n) == IF n < 2 THEN 0 ELSE 1 + Log2(n \div 2)

RECURSIVE Pow2(_)
Pow2(n) == IF n = 0 THEN 1 ELSE 2 * Pow2(n - 1)

\* Bits of a float64 significand.
MantissaBits == 53

(***************************************************************************)
(* int(d.Seconds()) for d >= 0.  Seconds() returns the float64             *)
(*   float64(sec) + float64(nsec)/1e9                                      *)
(* whose exact value lies in [sec, sec+1); the float64 sum is rounded to   *)
(* nearest, and it is sec+1 when 1 - nsec/1e9 is below half the spacing    *)
(* 2^(e-52) of the float64s under sec+1, e = floor(log2(sec)):             *)
(*   (1e9 - nsec) * 2^(53-e) < 1e9.                                        *)
(* 1e9 / 2^(53-e) is never whole for e < 44, so there are no ties; below   *)
(* e = 24 the quotient is under 1 and the sum never rounds up.             *)
(***************************************************************************)
RoundUpNanos(sec) ==
    IF sec < 1 THEN 0
    ELSE LET e == Log2(sec)
         IN  IF MantissaBits - e > 29 THEN 0
             ELSE NanosPerSecond \div Pow2(MantissaBits - e)

IntSeconds(d) ==
    IF NanosPerSecond - d.nsec <= RoundUpNanos(d.sec) THEN d.sec + 1 ELSE d.sec

\* A Set that sends the requested Expiration as it is.
ExpireNoFloor(expiration) == expiration

\* The local `expire` of Set.
Expire(expiration) ==
    IF DurLess(expiration, Second) THEN TimesDur(2, Minute) ELSE expiration

\* The second SETEX argument, int(expire.Seconds()).
SetexSeconds(expiration) == IntSeconds(Expire(expiration))

\* The SETEX arguments `args` of Set: the key, the seconds, the bytes.
SetexArgs(item, bytes) == <<item.key, SetexSeconds(item.exp), bytes>>

(***************************************************************************)
(* The error values a call can end with.  ErrCacheMiss is the package's     *)
(* sentinel; the others are the errors.Wrap messages of Set and Get.  A    *)
(* call that dereferences the nil redis.Conn ends in a run-time panic.     *)
(***************************************************************************)
ErrCacheMiss == "cache: key is missing"
ErrMarshal == "marshal failed"
ErrGetConn == "getConn failed"
ErrSetex == "Redis SETEX failed"
ErrGet == "Redis GET failed"
ErrUnmarshal == "unmarshal failed"
Panic == "panic: nil pointer dereference"
Ok == "nil"
Running == "running"

(***************************************************************************)
(* What the callers pass in.                                               *)
(***************************************************************************)
\* Item.Expiration values the callers pass: 500ms and 5s.
Expirations == {Dur(0, 500000000), Dur(5, 0)}
\* The value the caller's destination object holds before Get.
Destinations == {<<MaxElem>>}
\* A key that is not in the store.
Absent == [present |-> FALSE, val |-> <<>>, ttl |-> 0]
Entry(b, seconds) == [present |-> TRUE, val |-> b, ttl |-> seconds]
\* What the store may hold for a key before the cache is used: nothing, a
\* zero-length value, an encoded object, or bytes the strategy cannot decode.
StoredBefore == {Absent, Entry(<<>>, 1), Entry(Marshal(<<1>>).b, 1), Entry(<<0>>, 1)}
\* The stores the cache may be put in front of: the first key holds any of
\* these, the other keys nothing.
StoresBefore == {[k \in Keys |-> IF k = "k1" THEN v ELSE Absent] : v \in StoredBefore}

SetCall(k, o, e) == [op |-> "Set", key |-> k, obj |-> o, exp |-> e]
GetCall(k, d) == [op |-> "Get", key |-> k, obj |-> d, exp |-> Dur(0, 0)]
StatsCall == [op |-> "Stats", key |-> "k1", obj |-> <<>>, exp |-> Dur(0, 0)]
NoCall == [op |-> "none", key |-> "k1", obj |-> <<>>, exp |-> Dur(0, 0)]

VARIABLES
    store,      \* the key-value store: key -> Absent or Entry
    rejecting,  \* the store answers every command with an error
    active,     \* the pool's checked-out connections
    cmds,       \* connection -> number of commands it has carried
    cconn,      \* Cache.conn
    hits,       \* Cache.hits
    misses,     \* Cache.misses
    pc,         \* caller -> where it is: "idle", "getConn", "body", "loadMisses"
    call,       \* caller -> the call it is in, or made last (NoCall before the first)
    b,          \* caller -> the local b of Set and Get
    conn,       \* caller -> the local conn of Set and Get
    object,     \* caller -> the value of Get's destination object
    res,        \* caller -> what the call returned (Running until it ends)
    stats,      \* caller -> the Stats value being built or returned
    acquired,   \* caller -> the connections this call took out of the pool
    attempts,   \* caller -> pool.Get() calls of this call
    issued,     \* caller -> the connections this call sent its commands on, in order
    marshals,   \* caller -> Marshal invocations of this call
    unmarshals, \* caller -> Unmarshal invocations of this call
    absent,     \* caller -> the store answered this call's GET with ErrNil
    refused,    \* caller -> the pool gave this call a connection in error
    wrote,      \* caller -> this call changed the store
    counted,    \* caller -> the increments this call made to hits and misses
    args,       \* caller -> the SETEX arguments Set built (<<>> when none)
    before,     \* caller -> when the call began: the store's entry for its key,
                \* whether every other caller's Set and Get had ended, and
                \* the two counters
    script,     \* caller -> the calls it has yet to make (scripted callers)
    scripted,   \* whether the callers follow scripts or call freely
    log         \* caller -> the calls a scripted caller has completed

vars == <<store, active, cmds, cconn, hits, misses, pc, call, b, conn, object, args,
          res, stats, acquired, attempts, issued, marshals, unmarshals, absent, refused,
          wrote, counted, before, script, scripted, rejecting, log>>

shared == <<store, active, cmds, cconn, hits, misses>>
locals == <<call, b, conn, object, stats, args>>
\* What the caller's program and the store's condition are from the start.
setup == <<scripted, rejecting>>
ghosts == <<acquired, attempts, issued, marshals, unmarshals, absent, refused, wrote, counted,
           before>>
Zero == [hits |-> 0, misses |-> 0]

\* A completed call, as the caller saw it.
Completed(p, r) ==
    [call |-> call'[p], res |-> r, object |-> object'[p],
     acquired |-> acquired'[p] # {}, absent |-> absent'[p], quiet |-> before'[p].quiet,
     counted |-> counted'[p], stats |-> stats'[p]]

\* The call ends with r: the caller is idle again and, if scripted, logs it
\* (with the counts and the Stats value the call ends with).
Return(p, r) ==
    /\ pc' = [pc EXCEPT ![p] = "idle"]
    /\ res' = [res EXCEPT ![p] = r]
    /\ log' = IF scripted THEN [log EXCEPT ![p] = Append(@, Completed(p, r))] ELSE log

\* NewRedisCache: the pool and the two functions are stored, conn and the
\* counters are zero values.
NewRedisCache ==
    /\ cconn = Nil
    /\ hits = 0
    /\ misses = 0

InitCommon ==
    /\ NewRedisCache
    /\ \/ store \in StoresBefore /\ rejecting = FALSE
       \/ store = [k \in Keys |-> Absent] /\ rejecting = TRUE
    /\ active = {}
    /\ cmds = [c \in Conns |-> 0]
    /\ pc = [p \in Procs |-> "idle"]
    /\ call = [p \in Procs |-> NoCall]
    /\ b = [p \in Procs |-> <<>>]
    /\ conn = [p \in Procs |-> Nil]
    /\ object = [p \in Procs |-> <<>>]
    /\ res = [p \in Procs |-> Ok]
    /\ stats = [p \in Procs |-> [Hits |-> 0, Misses |-> 0]]
    /\ acquired = [p \in Procs |-> {}]
    /\ attempts = [p \in Procs |-> 0]
    /\ issued = [p \in Procs |-> <<>>]
    /\ marshals = [p \in Procs |-> 0]
    /\ unmarshals = [p \in Procs |-> 0]
    /\ absent = [p \in Procs |-> FALSE]
    /\ args = [p \in Procs |-> <<>>]
    /\ refused = [p \in Procs |-> FALSE]
    /\ wrote = [p \in Procs |-> FALSE]
    /\ counted = [p \in Procs |-> Zero]
    /\ before = [p \in Procs |-> [entry |-> Absent, quiet |-> FALSE, hits |-> 0, misses |-> 0]]
    /\ log = [p \in Procs |-> <<>>]

\* Callers that make any calls in any order.
Init ==
    /\ InitCommon
    /\ scripted = FALSE
    /\ script = [p \in Procs |-> <<>>]

\* The call is one the caller may make now.
MayCall(p, c) ==
    /\ pc[p] = "idle"
    /\ scripted => (script[p] # <<>> /\ Head(script[p]) = c)

\* No Set or Get of another scripted caller is running or still to come.
Quiet(p) ==
    /\ scripted
    /\ \A q \in Procs \ {p} :
          /\ pc[q] = "idle"
          /\ \A i \in 1..Len(script[q]) : script[q][i].op = "Stats"

\* Set calls Marshal once, as its first statement (line 52).
MarshalCalls == 1

\* Entering a call: the ghosts of the previous one are reset; a Set's entry
\* includes its call of Marshal.
Enter(p, c) ==
    /\ call' = [call EXCEPT ![p] = c]
    /\ script' = IF scripted THEN [script EXCEPT ![p] = Tail(@)] ELSE script
    /\ acquired' = [acquired EXCEPT ![p] = {}]
    /\ attempts' = [attempts EXCEPT ![p] = 0]
    /\ issued' = [issued EXCEPT ![p] = <<>>]
    /\ marshals' = [marshals EXCEPT ![p] = IF c.op = "Set" THEN MarshalCalls ELSE 0]
    /\ unmarshals' = [unmarshals EXCEPT ![p] = 0]
    /\ absent' = [absent EXCEPT ![p] = FALSE]
    /\ refused' = [refused EXCEPT ![p] = FALSE]
    /\ wrote' = [wrote EXCEPT ![p] = FALSE]
    /\ counted' = [counted EXCEPT ![p] = Zero]
    /\ before' = [before EXCEPT ![p] =
                     [entry |-> IF c.op \in {"Set", "Get"} THEN store[c.key] ELSE Absent,
                      quiet |-> Quiet(p), hits |-> hits, misses |-> misses]]
    /\ conn' = [conn EXCEPT ![p] = Nil]
    /\ args' = [args EXCEPT ![p] = <<>>]
    /\ UNCHANGED setup

(***************************************************************************)
(* The redigo pool and connection, as far as the cache uses them.          *)
(***************************************************************************)
\* conn.Do on connection c by caller p: the connection carries one more command.
Do(p, c) ==
    /\ cmds' = [cmds EXCEPT ![c] = @ + 1]
    /\ issued' = [issued EXCEPT ![p] = Append(@, c)]

\* The number of connections the pool hands out at a time.
Capacity == IF scripted THEN PerCaller * NumProcs ELSE MaxActive

\* c.Redis.Get(): the pool hands out its first connection that is not in use.
PoolGet == CHOOSE c \in Conns \ active : \A d \in Conns \ active : c <= d

\* conn.Close on connection c: it goes back to the pool.
Close(c) == active' = active \ {c}

(***************************************************************************)
(* Cache.getConn.  With Cache.conn nil it takes a connection out of the    *)
(* pool into its own local `conn`, returns that one only together with an  *)
(* error, and otherwise returns the field c.conn.                          *)
(***************************************************************************)
\* What getConn returns when c.Redis.Get() gave the healthy connection c.
getConnResult(c) == cconn

\* c.Redis.Get() hands out a connection whose Err() is nil.
GetConnOk(p) ==
    /\ pc[p] = "getConn"
    /\ IF cconn = Nil
       THEN LET c == PoolGet
            IN /\ Cardinality(active) < Capacity
               /\ active' = active \cup {c}
               /\ acquired' = [acquired EXCEPT ![p] = @ \cup {c}]
               /\ attempts' = [attempts EXCEPT ![p] = @ + 1]
               /\ conn' = [conn EXCEPT ![p] = getConnResult(c)]
       ELSE /\ conn' = [conn EXCEPT ![p] = cconn]
            /\ UNCHANGED <<active, acquired, attempts>>
    /\ pc' = [pc EXCEPT ![p] = "body"]
    /\ UNCHANGED <<store, cmds, cconn, hits, misses, call, b, object, res, stats,
                   args, issued, marshals, unmarshals, absent, refused, wrote, counted, before,
                   script, setup, log>>

\* getConn's failure reported as a miss.
getConnFailedAsMiss == ErrCacheMiss

\* What Set and Get return when getConn failed.
getConnFailed == ErrGetConn

\* A getConn that asks the pool a second time.
getConnTriesAgain == 1 + 1

\* Pool attempts getConn makes when c.Redis.Get() gives a connection in error.
getConnTries == 1

\* A failed getConn that is counted as a hit and as a miss.
GetConnErrCountsBoth(p) ==
    /\ pc[p] = "getConn"
    /\ cconn = Nil
    /\ attempts' = [attempts EXCEPT ![p] = @ + getConnTries]
    /\ refused' = [refused EXCEPT ![p] = TRUE]
    /\ hits' = hits + 1
    /\ misses' = misses + 1
    /\ UNCHANGED <<store, active, cmds, cconn, locals, acquired, issued, marshals,
                   unmarshals, absent, wrote, counted, before, script, setup>>
    /\ Return(p, getConnFailed)

\* c.Redis.Get() gives a connection whose Err() is not nil (pool exhausted,
\* store unreachable): nothing is checked out, and Set or Get returns the
\* wrapped error before its defer.
GetConnErr(p) ==
    /\ pc[p] = "getConn"
    /\ cconn = Nil
    /\ attempts' = [attempts EXCEPT ![p] = @ + getConnTries]
    /\ refused' = [refused EXCEPT ![p] = TRUE]
    /\ UNCHANGED <<shared, locals, acquired, issued, marshals, unmarshals, absent, wrote,
                   counted, before, script, setup>>
    /\ Return(p, getConnFailed)

(***************************************************************************)
(* Cache.Set.                                                              *)
(***************************************************************************)
\* A Set that counts itself as a miss.
CallSetCountsMiss(p, k, o, e) ==
    /\ MayCall(p, SetCall(k, o, e))
    /\ Enter(p, SetCall(k, o, e))
    /\ b' = [b EXCEPT ![p] = Marshal(o).b]
    /\ misses' = misses + 1
    /\ UNCHANGED <<store, active, cmds, cconn, hits, object, stats>>
    /\ IF Marshal(o).err
       THEN Return(p, ErrMarshal)
       ELSE /\ pc' = [pc EXCEPT ![p] = "getConn"]
            /\ res' = [res EXCEPT ![p] = Running]
            /\ log' = log

\* A Set that goes on to getConn whatever Marshal returned.
CallSetIgnoresError(p, k, o, e) ==
    /\ MayCall(p, SetCall(k, o, e))
    /\ Enter(p, SetCall(k, o, e))
    /\ b' = [b EXCEPT ![p] = Marshal(o).b]
    /\ UNCHANGED <<shared, object, stats>>
    /\ pc' = [pc EXCEPT ![p] = "getConn"]
    /\ res' = [res EXCEPT ![p] = Running]
    /\ log' = log

\* Lines 52-55: Marshal, and the return on its error.
CallSet(p, k, o, e) ==
    /\ MayCall(p, SetCall(k, o, e))
    /\ Enter(p, SetCall(k, o, e))
    /\ b' = [b EXCEPT ![p] = Marshal(o).b]
    /\ UNCHANGED <<shared, object, stats>>
    /\ IF Marshal(o).err
       THEN Return(p, ErrMarshal)
       ELSE /\ pc' = [pc EXCEPT ![p] = "getConn"]
            /\ res' = [res EXCEPT ![p] = Running]
            /\ log' = log

\* Lines 61-75, after getConn returned without error: the defer of
\* conn.Close(), the SETEX and the return.  Evaluating conn.Close on the nil
\* interface panics.
SetBody(p) ==
    /\ pc[p] = "body"
    /\ call[p].op = "Set"
    /\ UNCHANGED <<cconn, hits, misses, call, b, conn, object, stats, acquired,
                   attempts, marshals, unmarshals, absent, refused, counted, before,
                   script, setup>>
    /\ IF conn[p] = Nil
       THEN /\ UNCHANGED <<store, active, cmds, issued, args, wrote>>
            /\ Return(p, Panic)
       ELSE /\ args' = [args EXCEPT ![p] = SetexArgs(call[p], b[p])]
            /\ Do(p, conn[p])
            /\ Close(conn[p])
            /\ \E written \in (IF rejecting THEN {FALSE} ELSE BOOLEAN) :
                  IF written
                  THEN /\ store' = [store EXCEPT ![call[p].key] =
                                       Entry(b[p], SetexArgs(call[p], b[p])[2])]
                       /\ wrote' = [wrote EXCEPT ![p] = TRUE]
                       /\ Return(p, Ok)
                  ELSE /\ UNCHANGED <<store, wrote>>
                       /\ Return(p, ErrSetex)

(***************************************************************************)
(* Cache.Get.                                                              *)
(***************************************************************************)
\* A Get that clears the destination on entry.
CallGetClears(p, k, d) ==
    /\ MayCall(p, GetCall(k, d))
    /\ Enter(p, GetCall(k, d))
    /\ object' = [object EXCEPT ![p] = <<>>]
    /\ pc' = [pc EXCEPT ![p] = "getConn"]
    /\ res' = [res EXCEPT ![p] = Running]
    /\ UNCHANGED <<shared, b, stats, log>>

\* Line 79, up to the call of getConn.
CallGet(p, k, d) ==
    /\ MayCall(p, GetCall(k, d))
    /\ Enter(p, GetCall(k, d))
    /\ object' = [object EXCEPT ![p] = d]
    /\ pc' = [pc EXCEPT ![p] = "getConn"]
    /\ res' = [res EXCEPT ![p] = Running]
    /\ UNCHANGED <<shared, b, stats, log>>

\* Lines 83-100, after getConn returned without error: the defer of
\* conn.Close(), the GET, the counters, Unmarshal and the return.
GetBody(p) ==
    /\ pc[p] = "body"
    /\ call[p].op = "Get"
    /\ UNCHANGED <<store, cconn, call, conn, stats, args, acquired, attempts, marshals,
                   refused, wrote, before, script, setup>>
    /\ IF conn[p] = Nil
       THEN /\ UNCHANGED <<active, cmds, hits, misses, b, object, issued,
                           unmarshals, absent, counted>>
            /\ Return(p, Panic)
       ELSE /\ Do(p, conn[p])
            /\ Close(conn[p])
            /\ \E failed \in (IF rejecting THEN {TRUE} ELSE BOOLEAN) :
                  LET e == store[call[p].key]
                      u == Unmarshal(e.val, object[p])
                  IN  IF failed
                      THEN /\ UNCHANGED <<hits, misses, b, object, unmarshals, absent,
                                          counted>>
                           /\ Return(p, ErrGet)
                      ELSE IF ~e.present
                      THEN /\ misses' = misses + 1
                           /\ counted' = [counted EXCEPT ![p].misses = @ + 1]
                           /\ absent' = [absent EXCEPT ![p] = TRUE]
                           /\ UNCHANGED <<hits, b, object, unmarshals>>
                           /\ Return(p, ErrCacheMiss)
                      ELSE /\ hits' = hits + 1
                           /\ counted' = [counted EXCEPT ![p].hits = @ + 1]
                           /\ b' = [b EXCEPT ![p] = e.val]
                           /\ UNCHANGED <<misses, absent>>
                           /\ IF Len(e.val) = 0
                              THEN /\ UNCHANGED <<object, unmarshals>>
                                   /\ Return(p, Ok)
                              ELSE /\ unmarshals' = [unmarshals EXCEPT ![p] = @ + 1]
                                   /\ object' = [object EXCEPT ![p] = u.object]
                                   /\ Return(p, IF u.err THEN ErrUnmarshal ELSE Ok)

(***************************************************************************)
(* Cache.Stats: two atomic loads, hits first.                              *)
(***************************************************************************)
\* A Stats that adds to hits instead of loading it.
CallStatsAdds(p) ==
    /\ MayCall(p, StatsCall)
    /\ Enter(p, StatsCall)
    /\ hits' = hits + 1
    /\ stats' = [stats EXCEPT ![p] = [Hits |-> hits + 1, Misses |-> 0]]
    /\ pc' = [pc EXCEPT ![p] = "loadMisses"]
    /\ res' = [res EXCEPT ![p] = Running]
    /\ UNCHANGED <<store, active, cmds, cconn, misses, b, object, log>>

CallStats(p) ==
    /\ MayCall(p, StatsCall)
    /\ Enter(p, StatsCall)
    /\ stats' = [stats EXCEPT ![p] = [Hits |-> hits, Misses |-> 0]]
    /\ pc' = [pc EXCEPT ![p] = "loadMisses"]
    /\ res' = [res EXCEPT ![p] = Running]
    /\ UNCHANGED <<shared, b, object, log>>

StatsLoadMisses(p) ==
    /\ pc[p] = "loadMisses"
    /\ stats' = [stats EXCEPT ![p].Misses = misses]
    /\ UNCHANGED <<shared, call, b, conn, object, args, ghosts, script, setup>>
    /\ Return(p, Ok)

(***************************************************************************)
(* The store drops a key whose time to live has elapsed.                   *)
(***************************************************************************)
Expired(k) ==
    /\ store[k].present
    /\ store' = [store EXCEPT ![k] = Absent]
    /\ UNCHANGED <<active, cmds, cconn, hits, misses, pc, locals, res, ghosts,
                   script, setup, log>>

Next ==
    \/ \E p \in Procs, k \in Keys, o \in Objects \cup {BadObject}, e \in Expirations :
          CallSet(p, k, o, e)
    \/ \E p \in Procs, k \in Keys, d \in Destinations : CallGet(p, k, d)
    \/ \E p \in Procs : GetConnOk(p)
    \/ \E p \in Procs : GetConnErr(p)
    \/ \E p \in Procs : SetBody(p)
    \/ \E p \in Procs : GetBody(p)
    \/ \E p \in Procs : CallStats(p)
    \/ \E p \in Procs : StatsLoadMisses(p)
    \/ \E k \in Keys : Expired(k)

Spec == Init /\ [][Next]_vars

(***************************************************************************)
(* N parallel callers, each making one Set and then one Get on a key of    *)
(* its own and then reading the Stats.  A caller whose call panics         *)
(* recovers and goes on with its script.                                   *)
(***************************************************************************)
InitPar ==
    /\ InitCommon
    /\ scripted = TRUE
    /\ \E o \in Objects, e \in Expirations, d \in Destinations :
          script = [p \in Procs |->
                       <<SetCall(KeyOf(p), o, e), GetCall(KeyOf(p), d), StatsCall>>]

SpecPar == InitPar /\ [][Next]_vars

(***************************************************************************)
(* The expiration policy of Set on its own: lines 63-71 applied to an      *)
(* Item whose Expiration ranges over ExpirationInputs.                     *)
(***************************************************************************)
SecInputs ==
    {0, 1, 2, 5, 119, 120, 121}
        \cup {Pow2(k) : k \in 0..MaxSecBits}
        \cup {Pow2(k) - 1 : k \in 1..MaxSecBits}
NsecInputs == {0, 1, 500000000, 900000000, NanosPerSecond - 2, NanosPerSecond - 1}
ExpirationInputs ==
    {Dur(s, n) : s \in SecInputs, n \in NsecInputs}
        \cup {Dur(0 - s, 0 - n) : s \in {0, 1, 120}, n \in {0, 1, 500000000}}

\* Lines 63-71 of Set.
BuildArgs(p) ==
    /\ pc[p] = "args"
    /\ args' = [args EXCEPT ![p] = SetexArgs(call[p], b[p])]
    /\ pc' = [pc EXCEPT ![p] = "do"]
    /\ UNCHANGED <<shared, call, b, conn, object, stats, res, ghosts, script,
                   setup, log>>

InitArgs ==
    \E e \in ExpirationInputs, o \in Objects :
        /\ NewRedisCache
        /\ store = [k \in Keys |-> Absent]
        /\ rejecting = FALSE
        /\ active = {}
        /\ cmds = [c \in Conns |-> 0]
        /\ pc = [p \in Procs |-> IF p = 1 THEN "args" ELSE "idle"]
        /\ call = [p \in Procs |-> IF p = 1 THEN SetCall(KeyOf(p), o, e) ELSE NoCall]
        /\ b = [p \in Procs |-> IF p = 1 THEN Marshal(o).b ELSE <<>>]
        /\ conn = [p \in Procs |-> Nil]
        /\ object = [p \in Procs |-> <<>>]
        /\ res = [p \in Procs |-> IF p = 1 THEN Running ELSE Ok]
        /\ stats = [p \in Procs |-> [Hits |-> 0, Misses |-> 0]]
        /\ args = [p \in Procs |-> <<>>]
        /\ acquired = [p \in Procs |-> {}]
        /\ attempts = [p \in Procs |-> 0]
        /\ issued = [p \in Procs |-> <<>>]
        /\ marshals = [p \in Procs |-> IF p = 1 THEN 1 ELSE 0]
        /\ unmarshals = [p \in Procs |-> 0]
        /\ absent = [p \in Procs |-> FALSE]
        /\ refused = [p \in Procs |-> FALSE]
        /\ wrote = [p \in Procs |-> FALSE]
        /\ counted = [p \in Procs |-> Zero]
        /\ before = [p \in Procs |-> [entry |-> Absent, quiet |-> FALSE, hits |-> 0, misses |-> 0]]
        /\ log = [p \in Procs |-> <<>>]
        /\ scripted = FALSE
        /\ script = [p \in Procs |-> <<>>]

NextArgs == \E p \in Procs : BuildArgs(p)

SpecArgs == InitArgs /\ [][NextArgs]_vars

(***************************************************************************)
(* Properties.                                                             *)
(***************************************************************************)
\* The call caller p made last was a Set or a Get and has ended.
Ended(p) == pc[p] = "idle" /\ call[p].op \in {"Set", "Get"}

\* C1: every Set and every Get has, when it ends, released each connection
\* it took out of the pool, and when no call is running no connection is
\* checked out.
C1_ConnectionsReleased ==
    /\ \A p \in Procs :
          Ended(p) =>
             \A c \in acquired[p] :
                c \in active => \E q \in Procs \ {p} : c \in acquired[q]
    /\ (\A p \in Procs : pc[p] = "idle") => active = {}

\* C2: a Set or Get that acquired a connection has sent exactly one command,
\* on that connection, and the cache keeps no connection.
C2_OwnConnection ==
    \A p \in Procs :
       Ended(p) /\ acquired[p] # {} =>
          /\ \E c \in Conns : acquired[p] = {c} /\ issued[p] = <<c>>
          /\ cconn = Nil

\* The store and the pool served the logged call: it got its connection, the
\* command was not rejected, and the key had not expired.
Served(l) ==
    l.acquired /\ ~rejecting /\ l.res \notin {ErrSetex, ErrGet} /\ ~l.absent

\* C3: a Set of {K, O, Expiration >= 1s} with O encodable, followed by
\* Get(K, dest), both served by the pool and the store: both calls return nil
\* and dest holds O.
C3_RoundTrip ==
    \A p \in Procs :
       Len(log[p]) >= 2 =>
          LET s == log[p][1]
              g == log[p][2]
          IN  (/\ s.call.op = "Set"
               /\ ~Marshal(s.call.obj).err
               /\ ~DurLess(s.call.exp, Second)
               /\ g.call.op = "Get"
               /\ g.call.key = s.call.key
               /\ Served(s)
               /\ Served(g))
              => s.res = Ok /\ g.res = Ok /\ g.object = s.call.obj

\* Caller p's Get has ended; it got its connection, the read was not
\* rejected, and the store's entry for the key was e from the start of the
\* call on.
GetServed(p, e) ==
    /\ Ended(p)
    /\ call[p].op = "Get"
    /\ acquired[p] # {}
    /\ ~rejecting
    /\ res[p] # ErrGet
    /\ before[p].entry = e
    /\ store[call[p].key] = e

\* C4: a Get on a key that is not in the store returns ErrCacheMiss, adds one
\* to misses and nothing to hits.
C4_Miss ==
    \A p \in Procs :
       GetServed(p, Absent) =>
          /\ res[p] = ErrCacheMiss
          /\ counted[p] = [hits |-> 0, misses |-> 1]

AllReturned ==
    \A p \in Procs :
       /\ pc[p] = "idle"
       /\ \A i \in 1..Len(script[p]) : script[p][i].op = "Stats"

\* C7: once N callers have each made a Set and a Get on a key of their own,
\* all served by the pool and the store, hits is N and misses is 0, and so
\* reports every Stats call made from then on.
C7_ParallelCallers ==
    (/\ AllReturned
     /\ \A p \in Procs : \A i \in 1..Len(log[p]) :
           log[p][i].call.op \in {"Set", "Get"} => Served(log[p][i]))
    => /\ hits = NumProcs
       /\ misses = 0
       /\ \A p \in Procs : \A i \in 1..Len(log[p]) :
             log[p][i].call.op = "Stats" /\ log[p][i].quiet
                => log[p][i].stats = [Hits |-> NumProcs, Misses |-> 0]

\* C8: a Get returns ErrCacheMiss exactly when the store answered its GET
\* with "no such key", and no other Get and no Set returns ErrCacheMiss.
C8_MissByIdentity ==
    \A p \in Procs :
       Ended(p) => (res[p] = ErrCacheMiss <=> (call[p].op = "Get" /\ absent[p]))

\* A Get and a Set have failed for another reason than a missing key.
C8_OtherFailures ==
    \E p, q \in Procs :
       /\ Ended(p) /\ call[p].op = "Get" /\ res[p] = ErrGetConn
       /\ Ended(q) /\ call[q].op = "Set" /\ res[q] \in {ErrMarshal, ErrGetConn}

\* C9: a Set or Get that the pool gave a connection in error has returned
\* the getConn error after one attempt, has sent no command, and has changed
\* neither the store nor the counters.
C9_ConnectionError ==
    \A p \in Procs :
       refused[p] =>
          /\ pc[p] = "idle"
          /\ res[p] = ErrGetConn
          /\ attempts[p] = 1
          /\ acquired[p] = {}
          /\ issued[p] = <<>>
          /\ ~wrote[p]
          /\ counted[p] = Zero

\* A Set and a Get have both been refused a connection.
C9_Refused ==
    \E p, q \in Procs :
       /\ refused[p] /\ call[p].op = "Set"
       /\ refused[q] /\ call[q].op = "Get"

\* C10: a Get on a key for which the store holds a zero-length value returns
\* nil, adds one to hits, does not call Unmarshal and leaves the destination
\* as it was.
C10_EmptyPayload ==
    \A p \in Procs :
       GetServed(p, Entry(<<>>, 1)) =>
          /\ res[p] = Ok
          /\ counted[p] = [hits |-> 1, misses |-> 0]
          /\ unmarshals[p] = 0
          /\ object[p] = call[p].obj

\* C11: a Get on a key whose stored value is not empty and which Unmarshal
\* rejects returns the unmarshal error, not ErrCacheMiss, adds one to hits and
\* nothing to misses.
C11_DecodeFailure ==
    \A p \in Procs :
       GetServed(p, Entry(<<0>>, 1)) /\ Unmarshal(<<0>>, call[p].obj).err =>
          /\ res[p] = ErrUnmarshal
          /\ counted[p] = [hits |-> 1, misses |-> 0]

\* C12: a Get that got its connection from a store that answers the GET with
\* an error other than "no such key" returns the GET error and changes
\* neither counter.
C12_StoreReadError ==
    \A p \in Procs :
       Ended(p) /\ call[p].op = "Get" /\ acquired[p] # {} /\ rejecting =>
          /\ res[p] = ErrGet
          /\ counted[p] = Zero

C19_PositiveSeconds ==
    \A p \in Procs :
       args[p] # <<>> => args[p][2] \in Nat /\ args[p][2] >= 1

\* Set has built the SETEX arguments for a negative Expiration.
C19_NegativeRequested ==
    \E p \in Procs :
       /\ pc[p] = "do"
       /\ call[p].exp = Dur(0 - 1, 0 - 500000000)
       /\ args[p] # <<>>

\* Caller p has taken a step of its call.
Stepped(p) == pc'[p] # pc[p] \/ call'[p] # call[p] \/ res'[p] # res[p]

\* C14: no step of a Set, on any of its paths, changes hits or misses, and a
\* step that changes one of them is a step of a Get.
C14_SetLeavesCounters ==
    [][/\ (\E p \in Procs : Stepped(p) /\ call'[p].op = "Set")
             => hits' = hits /\ misses' = misses
       /\ (hits' # hits \/ misses' # misses)
             => \E p \in Procs : Stepped(p) /\ call[p].op = "Get" /\ call'[p] = call[p]
      ]_vars

\* Sets have ended on the three exits the program reaches, the marshal
\* error, the getConn error and the panic, with the counters as they were.
C14_SetsEnded ==
    /\ \E p, q \in Procs :
          /\ Ended(p) /\ call[p].op = "Set" /\ res[p] = ErrMarshal
          /\ Ended(q) /\ call[q].op = "Set" /\ res[q] \in {ErrGetConn, Panic}
    /\ hits = 0
    /\ misses = 0

\* C15: a Set whose object was encoded and which got its connection returns
\* the SETEX error when the store rejects the write, and returns nil exactly
\* when the write was done.
C15_WriteOutcome ==
    \A p \in Procs :
       Ended(p) /\ call[p].op = "Set" /\ ~Marshal(call[p].obj).err /\ acquired[p] # {} =>
          /\ rejecting => res[p] = ErrSetex /\ ~wrote[p]
          /\ res[p] = Ok <=> wrote[p]

\* C16: no step lowers hits or misses, a step adds at most one to their sum,
\* and a single Get counts at most once.
C16_Monotonic ==
    [][/\ hits' >= hits
       /\ misses' >= misses
       /\ (hits' + misses') - (hits + misses) <= 1
       /\ \A p \in Procs : counted'[p].hits + counted'[p].misses <= 1
      ]_vars

\* A Get has ended by the panic after it got a connection, while another
\* caller is between the two loads of Stats.
C16_GetsEnded ==
    \E p, q \in Procs :
       /\ Ended(p) /\ call[p].op = "Get" /\ res[p] = Panic
       /\ pc[q] = "loadMisses"
       /\ hits + misses <= 1

\* C17: a Set whose object Marshal rejects returns the marshal error after
\* one call of Marshal and nothing else: no getConn, no connection, no
\* command, no write, and the step leaves the store and the pool as they were.
C17_EncodeError ==
    /\ [](\A p \in Procs :
             call[p].op = "Set" /\ call[p].obj = BadObject =>
                /\ Marshal(call[p].obj).err
                /\ pc[p] = "idle"
                /\ res[p] = ErrMarshal
                /\ marshals[p] = 1
                /\ attempts[p] = 0
                /\ acquired[p] = {}
                /\ conn[p] = Nil
                /\ issued[p] = <<>>
                /\ ~wrote[p])
    /\ [][\A p \in Procs :
             call'[p].op = "Set" /\ call'[p].obj = BadObject /\ call'[p] # call[p] =>
                store' = store /\ active' = active /\ cmds' = cmds]_vars

\* A Set of an object Marshal rejects has ended, on a key the store holds.
C17_MarshalFailed ==
    \E p \in Procs :
       /\ Ended(p)
       /\ call[p].op = "Set"
       /\ call[p].obj = BadObject
       /\ res[p] = ErrMarshal
       /\ store[call[p].key].present

C20_DestinationKept ==
    \A p \in Procs :
       Ended(p) /\ call[p].op = "Get" /\ res[p] \in {ErrCacheMiss, ErrGet, ErrGetConn} =>
          /\ unmarshals[p] = 0
          /\ object[p] = call[p].obj

\* A Get with a destination that holds something has returned the getConn
\* error.
C20_GetFailed ==
    \E p \in Procs :
       /\ Ended(p)
       /\ call[p].op = "Get"
       /\ res[p] = ErrGetConn
       /\ call[p].obj = <<MaxElem>>
       /\ object[p] # <<>>

====
